---- MODULE Spec2Model ----
(***************************************************************************)
(* A model of the token issuance service of simple-auth-server.ts: the     *)
(* single HTTP handler that resolves an identity from the request, builds  *)
(* the capability map, asks the issuing authority for a token and writes   *)
(* one JSON response.                                                      *)
(*                                                                         *)
(* JavaScript strings are TLA+ strings (TLC evaluates Len, SubSeq and \o   *)
(* on them).  A JavaScript value that may be undefined, a string or an     *)
(* array is a record tagged by t.                                          *)
(***************************************************************************)
EXTENDS Naturals, Sequences, FiniteSets, TLC

(***************************************************************************)
(* Bounds of the model.                                                    *)
(***************************************************************************)
MaxIdLen == 3
MaxNameLen == 4
MaxCidLen == 3
MaxReqs == 2

(***************************************************************************)
(* JavaScript values and string primitives.                                *)
(***************************************************************************)
Undefined == [t |-> "undefined"]
StrV(s) == [t |-> "string", v |-> s]
ArrV(a) == [t |-> "array", v |-> a]

\* JavaScript truthiness of undefined | string | array
Truthy(x) == \/ x.t = "array"
             \/ x.t = "string" /\ x.v # ""

\* a || b
OrElse(a, b) == IF Truthy(a) THEN a ELSE b

CharAt(s, i) == SubSeq(s, i, i)

\* the characters of the regular expression class \s that the inputs use
IsSpace(c) == c \in {" ", "\t"}

HasSpace(s) == \E i \in 1..Len(s) : IsSpace(CharAt(s, i))

startsWith(s, p) == Len(s) >= Len(p) /\ SubSeq(s, 1, Len(p)) = p

includes(s, p) ==
    \E i \in 1..(Len(s) + 1) : i + Len(p) - 1 <= Len(s) /\ SubSeq(s, i, i + Len(p) - 1) = p

\* the first position from `from` on where s holds one of chars, or Len(s) + 1
FirstOf(s, chars, from) ==
    LET P == {i \in from..Len(s) : CharAt(s, i) \in chars}
    IN  IF P = {} THEN Len(s) + 1 ELSE CHOOSE i \in P : \A j \in P : i <= j

RECURSIVE SplitFrom(_, _, _)
SplitFrom(s, sep, from) ==
    LET e == FirstOf(s, {sep}, from)
    IN  IF e > Len(s) THEN <<SubSeq(s, from, Len(s))>>
        ELSE <<SubSeq(s, from, e - 1)>> \o SplitFrom(s, sep, e + 1)

\* String.prototype.split with a one-character separator
split(s, sep) == SplitFrom(s, sep, 1)

RECURSIVE Cat(_, _, _)
\* the concatenation of pieces[lo..hi]
Cat(pieces, lo, hi) ==
    IF lo > hi THEN ""
    ELSE IF lo = hi THEN pieces[lo]
         ELSE LET mid == (lo + hi) \div 2
              IN  Cat(pieces, lo, mid) \o Cat(pieces, mid + 1, hi)

RECURSIVE join(_, _)
\* Array.prototype.join
join(parts, sep) ==
    IF Len(parts) = 0 THEN ""
    ELSE IF Len(parts) = 1 THEN parts[1]
         ELSE parts[1] \o sep \o join(Tail(parts), sep)

RECURSIVE ReplaceWsFrom(_, _)
ReplaceWsFrom(s, i) ==
    IF i > Len(s) THEN ""
    ELSE IF IsSpace(CharAt(s, i))
         THEN IF i > 1 /\ IsSpace(CharAt(s, i - 1))
              THEN ReplaceWsFrom(s, i + 1)
              ELSE "_" \o ReplaceWsFrom(s, i + 1)
         ELSE CharAt(s, i) \o ReplaceWsFrom(s, i + 1)

\* userName.replace(/\s+/g, '_')
replaceWs(s) == ReplaceWsFrom(s, 1)

(***************************************************************************)
(* querystring.parse: pieces separated by &, key and value separated by    *)
(* the first =, + decoded as a space, a repeated key collected in an       *)
(* array.  The inputs hold no percent escape.                              *)
(***************************************************************************)
Unescape(s) == join(split(s, "+"), " ")

QsPair(piece) ==
    LET eq == FirstOf(piece, {"="}, 1)
    IN  <<Unescape(SubSeq(piece, 1, eq - 1)), Unescape(SubSeq(piece, eq + 1, Len(piece)))>>

\* the decoded key/value pairs in the order of the text; text is a JS value
querystring_parse(text) ==
    IF text.t # "string" \/ text.v = "" THEN <<>>
    ELSE LET pieces == SelectSeq(split(text.v, "&"), LAMBDA p : p # "")
         IN  [k \in 1..Len(pieces) |-> QsPair(pieces[k])]

\* parsed[key] of the object querystring.parse returns
Prop(parsed, key) ==
    LET hits == SelectSeq(parsed, LAMBDA kv : kv[1] = key)
        vals == [k \in 1..Len(hits) |-> hits[k][2]]
    IN  IF Len(vals) = 0 THEN Undefined
        ELSE IF Len(vals) = 1 THEN StrV(vals[1])
             ELSE ArrV(vals)

\* req.url.split('?')[1]
UrlQuery(url) ==
    LET p == split(url, "?")
    IN  IF Len(p) >= 2 THEN StrV(p[2]) ELSE Undefined

(***************************************************************************)
(* JSON.stringify and JSON.parse on strings, numbers, arrays and objects.  *)
(* An object is the sequence of its <<key, value>> members in insertion    *)
(* order.                                                                  *)
(***************************************************************************)
NumV(n) == [t |-> "number", v |-> n]
ObjV(members) == [t |-> "object", v |-> members]

JsonEscapeChar(c) ==
    IF c = "\"" THEN "\\\""
    ELSE IF c = "\\" THEN "\\\\"
    ELSE IF c = "\t" THEN "\\t"
    ELSE c

JsonEscape(s) == Cat([i \in 1..Len(s) |-> JsonEscapeChar(CharAt(s, i))], 1, Len(s))

JsonQuote(s) == "\"" \o JsonEscape(s) \o "\""

RECURSIVE JSONstringify(_)
JSONstringify(x) ==
    CASE x.t = "string" -> JsonQuote(x.v)
      [] x.t = "number" -> ToString(x.v)
      [] x.t = "array" ->
            "[" \o join([k \in 1..Len(x.v) |-> JSONstringify(x.v[k])], ",") \o "]"
      [] x.t = "object" ->
            "{" \o join([k \in 1..Len(x.v) |->
                            JsonQuote(x.v[k][1]) \o ":" \o JSONstringify(x.v[k][2])], ",") \o "}"

DigitVal(c) ==
    CASE c = "0" -> 0 [] c = "1" -> 1 [] c = "2" -> 2 [] c = "3" -> 3 [] c = "4" -> 4
      [] c = "5" -> 5 [] c = "6" -> 6 [] c = "7" -> 7 [] c = "8" -> 8 [] c = "9" -> 9

IsDigit(c) == c \in {"0", "1", "2", "3", "4", "5", "6", "7", "8", "9"}

RECURSIVE ParseStrFrom(_, _, _)
\* i is a position inside the string text; acc is the text read before i
ParseStrFrom(s, i, acc) ==
    LET k == FirstOf(s, {"\"", "\\"}, i)
        text == acc \o SubSeq(s, i, k - 1)
    IN  IF CharAt(s, k) = "\"" THEN [val |-> StrV(text), next |-> k + 1]
        ELSE LET d == CharAt(s, k + 1)
             IN  ParseStrFrom(s, k + 2, text \o (IF d = "t" THEN "\t" ELSE d))

RECURSIVE ParseNumFrom(_, _, _)
ParseNumFrom(s, i, acc) ==
    IF i <= Len(s) /\ IsDigit(CharAt(s, i))
    THEN ParseNumFrom(s, i + 1, 10 * acc + DigitVal(CharAt(s, i)))
    ELSE [val |-> NumV(acc), next |-> i]

RECURSIVE ParseValue(_, _), ParseItems(_, _, _), ParseMembers(_, _, _)
ParseValue(s, i) ==
    LET c == CharAt(s, i)
    IN  CASE c = "\"" -> ParseStrFrom(s, i + 1, "")
          [] c = "[" -> IF CharAt(s, i + 1) = "]"
                        THEN [val |-> ArrV(<<>>), next |-> i + 2]
                        ELSE ParseItems(s, i + 1, <<>>)
          [] c = "{" -> IF CharAt(s, i + 1) = "}"
                        THEN [val |-> ObjV(<<>>), next |-> i + 2]
                        ELSE ParseMembers(s, i + 1, <<>>)
          [] OTHER -> ParseNumFrom(s, i, 0)

ParseItems(s, i, acc) ==
    LET r == ParseValue(s, i)
        acc2 == Append(acc, r.val)
    IN  IF CharAt(s, r.next) = ","
        THEN ParseItems(s, r.next + 1, acc2)
        ELSE [val |-> ArrV(acc2), next |-> r.next + 1]

ParseMembers(s, i, acc) ==
    LET k == ParseStrFrom(s, i + 1, "")
        r == ParseValue(s, k.next + 1)
        acc2 == Append(acc, <<k.val.v, r.val>>)
    IN  IF CharAt(s, r.next) = ","
        THEN ParseMembers(s, r.next + 1, acc2)
        ELSE [val |-> ObjV(acc2), next |-> r.next + 1]

JSONparse(s) == ParseValue(s, 1).val

\* the keys of a parsed object
Keys(obj) == {obj.v[k][1] : k \in 1..Len(obj.v)}

\* obj[key]: the value of the last member with that key
Get(obj, key) ==
    LET hits == SelectSeq(obj.v, LAMBDA m : m[1] = key)
    IN  IF Len(hits) = 0 THEN Undefined ELSE hits[Len(hits)][2]

\* the strings of an array of strings, as a set; empty for undefined
Elems(arr) == IF arr.t = "array" THEN {arr.v[k].v : k \in 1..Len(arr.v)} ELSE {}

StrArr(ss) == ArrV([k \in 1..Len(ss) |-> StrV(ss[k])])

(***************************************************************************)
(* The capability map and the token request of the handler.                *)
(***************************************************************************)
TTL == 3600000

\* the capability map without history on the roomslist key
capabilitiesNoHistory(userId) ==
    ObjV(<< <<"roomslist:" \o userId, StrArr(<<"publish", "subscribe">>)>>,
            <<"presence", StrArr(<<"publish", "subscribe", "presence">>)>> >>)

\* const capabilities: TokenCapabilities = { ... }
capabilities(userId) ==
    ObjV(<< <<"roomslist:" \o userId, StrArr(<<"publish", "subscribe", "history">>)>>,
            <<"presence", StrArr(<<"publish", "subscribe", "presence">>)>> >>)

\* the ttl given in seconds instead of milliseconds
tokenRequestTtlSeconds(clientId, userId) ==
    [clientId |-> clientId,
     capability |-> JSONstringify(capabilities(userId)),
     ttl |-> TTL \div 1000]

\* const tokenRequest = { clientId, capability, ttl }
tokenRequest(clientId, userId) ==
    [clientId |-> clientId,
     capability |-> JSONstringify(capabilities(userId)),
     ttl |-> TTL]

(***************************************************************************)
(* The requests clients send.  A header value is what the HTTP parser      *)
(* hands over: surrounding blanks are stripped, inner ones are kept.        *)
(***************************************************************************)
IdChars == {"u", " ", ".", "*"}
NameChars == {"N", " ", "\t", "."}
CidChars == {"u", ".", "+", "*"}

RECURSIVE Strings(_, _)
\* the strings over chars of length at most n
Strings(chars, n) ==
    IF n = 0 THEN {""}
    ELSE LET S == Strings(chars, n - 1)
         IN  S \cup {s \o c : s \in S, c \in chars}

Trimmed(S) ==
    {s \in S : s = "" \/ (~IsSpace(CharAt(s, 1)) /\ ~IsSpace(CharAt(s, Len(s))))}

IdStrings == Trimmed(Strings(IdChars, MaxIdLen))
NameStrings == Trimmed(Strings(NameChars, MaxNameLen))
CidStrings == Strings(CidChars, MaxCidLen)

Request(m, url, uid, name, full, body) ==
    [method |-> m,
     url |-> url,
     headers |-> ("x-user-id" :> uid) @@ ("x-user-name" :> name) @@ ("x-user-full-name" :> full),
     body |-> body]

NameVals == {Undefined} \cup {StrV(n) : n \in NameStrings}

FewNames == {Undefined, StrV(""), StrV("N"), StrV("N. N")}
FewIds == {"u", "u.u", "*"}

\* every user id with a few names, and every name with a few user ids
HeaderReqs ==
    {Request("GET", "/auth", StrV(u), n, Undefined, "") :
        u \in IdStrings \ {""}, n \in FewNames}
        \cup {Request("GET", "/auth", StrV(u), n, Undefined, "") :
                 u \in FewIds, n \in NameVals}

FullNameReqs ==
    {Request("GET", "/auth", u, n, StrV(f), "") :
        u \in {Undefined, StrV("u")}, n \in {Undefined, StrV("N")}, f \in {"N", "N N"}}

QueryTexts ==
    {"clientId=" \o v : v \in CidStrings}
        \cup {"clientId", "x=u", "x=u&clientId=N.u", "clientId=N.u&clientId=N.v",
              "clientId=N.u&ttl=1", "clientId=a.b.c"}

BodyTexts == {"", "clientId=N.u", "clientId=.", "x=u", "clientId=N.u&clientId=N.v"}

SdkUrls == {"/auth", "/auth?"} \cup {"/auth?" \o q : q \in QueryTexts}

SdkReqs ==
    {Request(IF b = "" THEN "GET" ELSE "POST", url, uid, Undefined, Undefined, b) :
        url \in SdkUrls, b \in BodyTexts, uid \in {Undefined, StrV("")}}

BothReqs ==
    {Request("GET", "/auth?clientId=" \o c, StrV(u), n, Undefined, b) :
        c \in {"", "v", "N.v"}, u \in {"u", "u.u"}, n \in {Undefined, StrV("N N")},
        b \in {"", "clientId=N.v"}}

OptionsReqs ==
    {Request("OPTIONS", url, uid, Undefined, Undefined, "") :
        url \in {"*", "/auth", "/nope", "/auth?clientId=N.u"}, uid \in {Undefined, StrV("u")}}

OtherPathReqs ==
    {Request(m, url, uid, n, Undefined, "") :
        m \in {"GET", "POST"},
        url \in {"/", "/nope", "/aut", "/Auth", "/authorize", "/auth/x", "/nope?clientId=N.u"},
        uid \in {Undefined, StrV("u")}, n \in {Undefined, StrV("N N")}}

Requests ==
    HeaderReqs \cup FullNameReqs \cup SdkReqs \cup BothReqs \cup OptionsReqs \cup OtherPathReqs

\* the requests of the workloads with several requests in flight
SmallReqs ==
    {Request("GET", "/auth", StrV("u"), StrV("N N"), Undefined, ""),
     Request("GET", "/auth?clientId=N.v", Undefined, Undefined, Undefined, ""),
     Request("POST", "/auth", Undefined, Undefined, Undefined, "clientId=N.u&clientId=N.v"),
     Request("GET", "/auth", Undefined, StrV("N"), Undefined, ""),
     Request("OPTIONS", "/auth", Undefined, Undefined, Undefined, ""),
     Request("GET", "/nope", StrV("u"), Undefined, Undefined, "")}

Workloads ==
    {<<q>> : q \in Requests} \cup UNION {[1..n -> SmallReqs] : n \in 2..MaxReqs}

(***************************************************************************)
(* The issuing authority: it answers a token request with an envelope or   *)
(* fails with a message.                                                   *)
(***************************************************************************)
Tokens == {"tokA", "tokB"}
IssuedAt == {1000}
AuthorityErrors == {"Request timed out", "Invalid credentials"}

Envelopes(tr) ==
    {[token |-> t, keyName |-> "app.key", issued |-> at, expires |-> at + tr.ttl,
      capability |-> tr.capability, clientId |-> tr.clientId] :
        t \in Tokens, at \in IssuedAt}

\* the envelope passed on without its keyName
TokenDetailsNoKeyName(env) ==
    ObjV(<< <<"token", StrV(env.token)>>,
            <<"issued", NumV(env.issued)>>,
            <<"expires", NumV(env.expires)>>,
            <<"capability", StrV(env.capability)>>,
            <<"clientId", StrV(env.clientId)>> >>)

\* the members of the TokenDetails object the authority's client returns
TokenDetails(env) ==
    ObjV(<< <<"token", StrV(env.token)>>,
            <<"keyName", StrV(env.keyName)>>,
            <<"issued", NumV(env.issued)>>,
            <<"expires", NumV(env.expires)>>,
            <<"capability", StrV(env.capability)>>,
            <<"clientId", StrV(env.clientId)>> >>)

\* const errorResponse: ErrorResponse = { error, details? }
ErrorResponse(error) == ObjV(<< <<"error", StrV(error)>> >>)
ErrorResponseDetails(error, details) ==
    ObjV(<< <<"error", StrV(error)>>, <<"details", StrV(details)>> >>)

(***************************************************************************)
(* State.                                                                  *)
(***************************************************************************)
VARIABLES
    req,        \* the requests sent to the server, by request number
    pc,         \* where the handler of each request stands
    userId,     \* let userId, of each handler
    userName,   \* let userName, of each handler
    clientId,   \* let clientId, of each handler
    calls,      \* the ably.auth.requestToken calls made, in order
    reply,      \* what the authority answered to the call of each request
    res         \* the response object of each request

vars == <<req, pc, userId, userName, clientId, calls, reply, res>>

Ids == DOMAIN req

NoReply == [t |-> "none"]

CorsHeaders ==
    {<<"Access-Control-Allow-Origin", "*">>,
     <<"Access-Control-Allow-Methods", "POST, GET, OPTIONS">>,
     <<"Access-Control-Allow-Headers", "Content-Type, X-User-Id, X-User-Name">>}

JsonType == {<<"Content-Type", "application/json">>}

Init ==
    /\ req \in Workloads
    /\ pc = [i \in DOMAIN req |-> "sent"]
    /\ userId = [i \in DOMAIN req |-> Undefined]
    /\ userName = [i \in DOMAIN req |-> Undefined]
    /\ clientId = [i \in DOMAIN req |-> Undefined]
    /\ calls = <<>>
    /\ reply = [i \in DOMAIN req |-> NoReply]
    /\ res = [i \in DOMAIN req |-> [headers |-> {}, written |-> <<>>]]

\* res.setHeader, three times
setCors(r) == [r EXCEPT !.headers = @ \cup CorsHeaders]

\* the response written a second time
respondTwice(r, status, headers, body) ==
    [headers |-> r.headers \cup headers,
     written |-> r.written \o
                 << [status |-> status, headers |-> r.headers \cup headers, body |-> body],
                    [status |-> status, headers |-> r.headers \cup headers, body |-> body] >>]

\* res.writeHead(status, headers); res.end(body)
respond(r, status, headers, body) ==
    [headers |-> r.headers \cup headers,
     written |-> Append(r.written,
                        [status |-> status, headers |-> r.headers \cup headers, body |-> body])]

(***************************************************************************)
(* The handler.  A step runs the handler of one request from one await to  *)
(* the next.                                                               *)
(***************************************************************************)
IsAuth(q) == q.method # "OPTIONS" /\ startsWith(q.url, "/auth")

\* the preflight answered with 200 instead of 204
OptionsStatus200(i) ==
    /\ pc[i] = "sent"
    /\ req[i].method = "OPTIONS"
    /\ res' = [res EXCEPT ![i] = respond(setCors(@), 200, {}, "")]
    /\ pc' = [pc EXCEPT ![i] = "done"]
    /\ UNCHANGED <<req, userId, userName, clientId, calls, reply>>

\* if (req.method === 'OPTIONS') { res.writeHead(204); res.end(); return; }
Options(i) ==
    /\ pc[i] = "sent"
    /\ req[i].method = "OPTIONS"
    /\ res' = [res EXCEPT ![i] = respond(setCors(@), 204, {}, "")]
    /\ pc' = [pc EXCEPT ![i] = "done"]
    /\ UNCHANGED <<req, userId, userName, clientId, calls, reply>>

\* if (!req.url?.startsWith('/auth')) { ... 404 ... }
NotFound(i) ==
    /\ pc[i] = "sent"
    /\ req[i].method # "OPTIONS"
    /\ ~startsWith(req[i].url, "/auth")
    /\ res' = [res EXCEPT ![i] =
                  respond(setCors(@), 404, JsonType, JSONstringify(ErrorResponse("Not Found")))]
    /\ pc' = [pc EXCEPT ![i] = "done"]
    /\ UNCHANGED <<req, userId, userName, clientId, calls, reply>>

\* the identity check that forgets the user id
IdentityMissingClientIdOnly(u, c) == ~Truthy(c)

\* if (!userId || !clientId) { ... 400 ... }
IdentityMissing(u, c) == ~Truthy(u) \/ ~Truthy(c)

\* from the identity check to the await of ably.auth.requestToken
Issue(i, u, n, c) ==
    /\ userId' = [userId EXCEPT ![i] = u]
    /\ userName' = [userName EXCEPT ![i] = n]
    /\ clientId' = [clientId EXCEPT ![i] = c]
    /\ IF IdentityMissing(u, c)
       THEN /\ res' = [res EXCEPT ![i] =
                          respond(setCors(@), 400, JsonType,
                                  JSONstringify(ErrorResponse("Could not determine user identity")))]
            /\ pc' = [pc EXCEPT ![i] = "done"]
            /\ calls' = calls
       ELSE /\ res' = [res EXCEPT ![i] = setCors(@)]
            /\ pc' = [pc EXCEPT ![i] = "awaitToken"]
            /\ calls' = Append(calls, [id |-> i, tokenRequest |-> tokenRequest(c.v, u.v)])
    /\ UNCHANGED <<req, reply>>

\* `${userName.replace(/\s+/g, '_')}.${userId}`
HeaderClientId(name, uid) == replaceWs(name) \o "." \o uid

\* headers['x-user-name'] || 'Unknown'
HeaderUserName(headers) == OrElse(headers["x-user-name"], StrV("Unknown"))

\* a clientId of the query string taken before the headers
HeaderPathQueryFirst(i) ==
    /\ pc[i] = "sent"
    /\ IsAuth(req[i])
    /\ Truthy(req[i].headers["x-user-id"])
    /\ LET u == req[i].headers["x-user-id"]
           n == HeaderUserName(req[i].headers)
           c == Prop(querystring_parse(UrlQuery(req[i].url)), "clientId")
       IN  Issue(i, u, n, IF c.t = "string" /\ Truthy(c) THEN c
                          ELSE StrV(HeaderClientId(n.v, u.v)))

\* if (headers['x-user-id']) { ... }
HeaderPath(i) ==
    /\ pc[i] = "sent"
    /\ IsAuth(req[i])
    /\ Truthy(req[i].headers["x-user-id"])
    /\ LET u == req[i].headers["x-user-id"]
           n == HeaderUserName(req[i].headers)
       IN  Issue(i, u, n, StrV(HeaderClientId(n.v, u.v)))

\* else { ... const body = await parseBody(req);
AwaitBody(i) ==
    /\ pc[i] = "sent"
    /\ IsAuth(req[i])
    /\ ~Truthy(req[i].headers["x-user-id"])
    /\ userName' = [userName EXCEPT ![i] = StrV("Unknown")]
    /\ res' = [res EXCEPT ![i] = setCors(@)]
    /\ pc' = [pc EXCEPT ![i] = "awaitBody"]
    /\ UNCHANGED <<req, userId, clientId, calls, reply>>

\* (queryParams.clientId || body.clientId)
SdkClientId(q) ==
    OrElse(Prop(querystring_parse(UrlQuery(q.url)), "clientId"),
           Prop(querystring_parse(StrV(q.body)), "clientId"))

\* the first part of the clientId taken instead of the last
SdkUserIdFirst(sdkClientId) ==
    LET parts == split(sdkClientId, ".") IN parts[1]

\* const parts = sdkClientId.split('.'); userId = parts.pop()
SdkUserId(sdkClientId) ==
    LET parts == split(sdkClientId, ".") IN parts[Len(parts)]

\* userName = parts.join('.')
SdkUserName(sdkClientId) ==
    LET parts == split(sdkClientId, ".") IN join(SubSeq(parts, 1, Len(parts) - 1), ".")

\* the body has arrived: the rest of the else branch, then the identity check.  The
\* constants of the branch are bound once, as const binds them.
BodyEnd(i) ==
    /\ pc[i] = "awaitBody"
    /\ \E sdkClientId \in {SdkClientId(req[i])} :
          IF Truthy(sdkClientId)
          THEN IF sdkClientId.t = "array"
               THEN \* sdkClientId.split is not a function: the catch block answers
                    /\ res' = [res EXCEPT ![i] =
                                  respond(@, 500, JsonType,
                                          JSONstringify(ErrorResponseDetails(
                                              "Failed to create token",
                                              "sdkClientId.split is not a function")))]
                    /\ pc' = [pc EXCEPT ![i] = "done"]
                    /\ UNCHANGED <<req, userId, userName, clientId, calls, reply>>
               ELSE \E u \in {StrV(SdkUserId(sdkClientId.v))},
                       n \in {StrV(SdkUserName(sdkClientId.v))} :
                        Issue(i, u, n, sdkClientId)
          ELSE Issue(i, userId[i], userName[i], clientId[i])

\* the oldest call taken for every request, as if the token request were shared
CallOfFirst(i) == 1

\* the call of request i that the authority has not answered
CallOf(i) == CHOOSE k \in 1..Len(calls) : calls[k].id = i

\* const tokenDetails = await ably.auth.requestToken(tokenRequest); ... 200
TokenGranted(i, env) ==
    /\ pc[i] = "awaitToken"
    /\ env \in Envelopes(calls[CallOf(i)].tokenRequest)
    /\ reply' = [reply EXCEPT ![i] = [t |-> "token", v |-> env]]
    /\ res' = [res EXCEPT ![i] = respond(@, 200, JsonType, JSONstringify(TokenDetails(env)))]
    /\ pc' = [pc EXCEPT ![i] = "done"]
    /\ UNCHANGED <<req, userId, userName, clientId, calls>>

\* the failed call made once more instead of answered
TokenFailedRetry(i, message) ==
    /\ pc[i] = "awaitToken"
    /\ calls' = Append(calls, calls[CallOf(i)])
    /\ UNCHANGED <<req, pc, userId, userName, clientId, reply, res>>

\* catch (error) { ... 500 ... }
TokenFailed(i, message) ==
    /\ pc[i] = "awaitToken"
    /\ reply' = [reply EXCEPT ![i] = [t |-> "error", v |-> message]]
    /\ res' = [res EXCEPT ![i] =
                  respond(@, 500, JsonType,
                          JSONstringify(ErrorResponseDetails("Failed to create token", message)))]
    /\ pc' = [pc EXCEPT ![i] = "done"]
    /\ UNCHANGED <<req, userId, userName, clientId, calls>>

Next ==
    \/ \E i \in Ids : Options(i)
    \/ \E i \in Ids : NotFound(i)
    \/ \E i \in Ids : HeaderPath(i)
    \/ \E i \in Ids : AwaitBody(i)
    \/ \E i \in Ids : BodyEnd(i)
    \/ \E i \in {j \in Ids : pc[j] = "awaitToken"} :
          \E env \in Envelopes(calls[CallOf(i)].tokenRequest) : TokenGranted(i, env)
    \/ \E i \in Ids : \E message \in AuthorityErrors : TokenFailed(i, message)

Spec == Init /\ [][Next]_vars

PcValues == {"sent", "awaitBody", "awaitToken", "done"}

\* the handler of request i moves on, from its start or from an await
Proceeds(i) ==
    /\ i \in Ids
    /\ pc[i] # "done"
    /\ \E p \in PcValues \ {pc[i]} : pc' = [pc EXCEPT ![i] = p]

\* The event loop runs every handler that is ready to run, every body finishes
\* arriving and every call to the authority returns or fails: a request that can
\* move on does.
FairSpec == Spec /\ \A i \in 1..MaxReqs : WF_pc(Proceeds(i))

(***************************************************************************)
(* Reading a state: the token request sent for a request, its capability   *)
(* map as the receiver parses it, and the response written.                *)
(***************************************************************************)
HasCall(i) == \E k \in 1..Len(calls) : calls[k].id = i

TokenRequestOf(i) == calls[CallOf(i)].tokenRequest

\* JSON.parse(tokenDetails.capability)
CapabilityOf(i) == JSONparse(TokenRequestOf(i).capability)

\* the operations the map grants under one key
Ops(cap, key) == Elems(Get(cap, key))

ViaHeaders(i) == IsAuth(req[i]) /\ Truthy(req[i].headers["x-user-id"])

ViaClientId(i) == IsAuth(req[i]) /\ ~Truthy(req[i].headers["x-user-id"])

Answered(i) == Len(res[i].written) > 0

StatusOf(i) == res[i].written[1].status

\* the error field of the JSON body of the response
ErrorOf(i) == Get(JSONparse(res[i].written[1].body), "error")

RECURSIVE Glob(_, _)
\* a channel name matches a capability key in which * stands for any text
Glob(p, s) ==
    IF p = "" THEN s = ""
    ELSE IF CharAt(p, 1) = "*"
         THEN \/ Glob(SubSeq(p, 2, Len(p)), s)
              \/ s # "" /\ Glob(p, SubSeq(s, 2, Len(s)))
         ELSE /\ s # ""
              /\ CharAt(s, 1) = CharAt(p, 1)
              /\ Glob(SubSeq(p, 2, Len(p)), SubSeq(s, 2, Len(s)))

\* the operations a capability map grants on a channel
GrantedOn(cap, channel) == UNION {Ops(cap, k) : k \in {k \in Keys(cap) : Glob(k, channel)}}

RECURSIVE CollapseWs(_)
\* every maximal run of blanks becomes one underscore, read from the right
CollapseWs(s) ==
    IF s = "" THEN ""
    ELSE LET n == Len(s)
             c == CharAt(s, n)
             init == SubSeq(s, 1, n - 1)
         IN  IF IsSpace(c)
             THEN IF init # "" /\ IsSpace(CharAt(init, n - 1))
                  THEN CollapseWs(init)
                  ELSE CollapseWs(init) \o "_"
             ELSE CollapseWs(init) \o c

(***************************************************************************)
(* C1: every token request carries the seven canonical grants for the      *)
(* resolved user id U: roomslist:U, profile:U, profile:*, U:*, *:U,        *)
(* presence and *, each with its operations.                               *)
(***************************************************************************)
C1_CanonicalGrants ==
    \A i \in Ids : HasCall(i) =>
        LET U == userId[i].v
            cap == CapabilityOf(i)
        IN  /\ {"publish", "subscribe", "history", "object-subscribe", "object-publish"}
                   \subseteq Ops(cap, "roomslist:" \o U)
            /\ {"publish", "subscribe", "history"} \subseteq Ops(cap, "profile:" \o U)
            /\ {"subscribe"} \subseteq Ops(cap, "profile:*")
            /\ {"publish", "subscribe", "history", "presence"} \subseteq Ops(cap, U \o ":*")
            /\ {"publish", "subscribe", "history", "presence"} \subseteq Ops(cap, "*:" \o U)
            /\ {"publish", "subscribe", "presence"} \subseteq Ops(cap, "presence")
            /\ {"subscribe"} \subseteq Ops(cap, "*")

(***************************************************************************)
(* C2: in every token request the capability map has the key roomslist:U   *)
(* with publish, subscribe and history and the key presence with publish,  *)
(* subscribe and presence, U being the user id of the request: the         *)
(* x-user-id header, or the last segment of the combined clientId.         *)
(***************************************************************************)
C2_MinimumGrants ==
    \A i \in Ids : HasCall(i) =>
        LET U == IF ViaHeaders(i) THEN req[i].headers["x-user-id"].v
                 ELSE SdkUserId(SdkClientId(req[i]).v)
            cap == CapabilityOf(i)
        IN  /\ userId[i] = StrV(U)
            /\ "roomslist:" \o U \in Keys(cap)
            /\ {"publish", "subscribe", "history"} \subseteq Ops(cap, "roomslist:" \o U)
            /\ "presence" \in Keys(cap)
            /\ {"publish", "subscribe", "presence"} \subseteq Ops(cap, "presence")

\* a token request has gone out on the header path and one on the clientId path
C2_Witness ==
    \E i, j \in Ids : /\ ViaHeaders(i) /\ HasCall(i)
                      /\ ViaClientId(j) /\ HasCall(j)

(***************************************************************************)
(* C3: the capability map issued for U grants no operation on roomslist:V  *)
(* or profile:V for any other user id V, the keys being matched with * as  *)
(* a wildcard.                                                             *)
(***************************************************************************)
C3_OwnChannelsOnly ==
    \A i \in Ids : HasCall(i) =>
        \A V \in IdStrings \ {"", userId[i].v} :
            /\ GrantedOn(CapabilityOf(i), "roomslist:" \o V) = {}
            /\ GrantedOn(CapabilityOf(i), "profile:" \o V) = {}

(***************************************************************************)
(* C4: the clientId of every token request holds no whitespace character,  *)
(* on the header path and on the combined clientId path.                   *)
(***************************************************************************)
C4_NoWhitespace ==
    \A i \in Ids : HasCall(i) => ~HasSpace(TokenRequestOf(i).clientId)

(***************************************************************************)
(* C5: the ClientId derived on the header path, fed to the combined        *)
(* clientId path, gives back the same user id and the same normalised      *)
(* display name, hence the same token request.                             *)
(***************************************************************************)
C5_RoundTrip ==
    \A i \in Ids : ViaHeaders(i) /\ HasCall(i) =>
        LET c == TokenRequestOf(i).clientId
        IN  /\ SdkUserId(c) = req[i].headers["x-user-id"].v
            /\ SdkUserName(c) = CollapseWs(userName[i].v)
            /\ ~IdentityMissing(StrV(SdkUserId(c)), StrV(c))
            /\ tokenRequest(c, SdkUserId(c)) = TokenRequestOf(i)

(***************************************************************************)
(* C6: on the header path the ClientId is the display name with every      *)
(* maximal run of whitespace replaced by one underscore, then a dot, then  *)
(* the user id unchanged, and no space remains in it.                      *)
(***************************************************************************)
C6_HeaderClientId ==
    \A i \in Ids : ViaHeaders(i) /\ HasCall(i) =>
        LET c == TokenRequestOf(i).clientId
        IN  /\ c = CollapseWs(userName[i].v) \o "." \o req[i].headers["x-user-id"].v
            /\ ~HasSpace(c)

(***************************************************************************)
(* C7: a request with a user id header U and no display name header is not *)
(* rejected, and the ClientId of its token request is Unknown_User.U.      *)
(***************************************************************************)
C7_DefaultName ==
    \A i \in Ids :
        /\ ViaHeaders(i)
        /\ req[i].headers["x-user-name"] = Undefined
        /\ req[i].headers["x-user-full-name"] = Undefined
        /\ pc[i] # "sent"
        => /\ HasCall(i)
           /\ TokenRequestOf(i).clientId = "Unknown_User." \o req[i].headers["x-user-id"].v

(***************************************************************************)
(* C8: a request with x-user-id U and x-user-full-name N, and no           *)
(* x-user-name, gets the ClientId built from N, as if N had come in        *)
(* x-user-name.                                                            *)
(***************************************************************************)
C8_FullNameHeader ==
    \A i \in Ids :
        /\ ViaHeaders(i)
        /\ req[i].headers["x-user-name"] = Undefined
        /\ Truthy(req[i].headers["x-user-full-name"])
        /\ HasCall(i)
        => TokenRequestOf(i).clientId =
               HeaderClientId(req[i].headers["x-user-full-name"].v, req[i].headers["x-user-id"].v)

(***************************************************************************)
(* C9: a /auth request with no or an empty x-user-id header, and with no   *)
(* clientId in query string or body or with a clientId whose part after    *)
(* the last dot is empty, sends no token request and is answered once,     *)
(* with status 400 and a JSON body whose only member is an error message   *)
(* that mentions identity or User ID.                                      *)
(***************************************************************************)
NoClientId(q) ==
    /\ Prop(querystring_parse(UrlQuery(q.url)), "clientId") = Undefined
    /\ Prop(querystring_parse(StrV(q.body)), "clientId") = Undefined

EmptyLastPart(q) ==
    LET c == SdkClientId(q)
    IN  c.t = "string" /\ (c.v = "" \/ CharAt(c.v, Len(c.v)) = ".")

NoIdentity(i) ==
    /\ ViaClientId(i)
    /\ NoClientId(req[i]) \/ EmptyLastPart(req[i])

C10_UserIdRequired ==
    \A i \in Ids :
        /\ IsAuth(req[i])
        /\ req[i].headers["x-user-id"] = Undefined
        /\ Truthy(req[i].headers["x-user-name"]) \/ Truthy(req[i].headers["x-user-full-name"])
        /\ pc[i] = "done"
        => /\ StatusOf(i) = 400
           /\ includes(ErrorOf(i).v, "User ID required")

(***************************************************************************)
(* C11: every OPTIONS request, whatever its path and headers, resolves no  *)
(* identity, sends no token request and is answered once, with status 204, *)
(* an empty body, Access-Control-Allow-Origin *, allowed methods that      *)
(* contain GET and POST and allowed headers that contain X-User-Id.        *)
(***************************************************************************)
\* the values of the response header of that name
HeaderValues(response, name) == {h[2] : h \in {g \in response.headers : g[1] = name}}

C11_Preflight ==
    \A i \in Ids : req[i].method = "OPTIONS" =>
        /\ ~HasCall(i)
        /\ userId[i] = Undefined /\ userName[i] = Undefined /\ clientId[i] = Undefined
        /\ pc[i] \in {"sent", "done"}
        /\ pc[i] = "done" =>
              /\ Len(res[i].written) = 1
              /\ StatusOf(i) = 204
              /\ res[i].written[1].body = ""
              /\ HeaderValues(res[i].written[1], "Access-Control-Allow-Origin") = {"*"}
              /\ \E m \in HeaderValues(res[i].written[1], "Access-Control-Allow-Methods") :
                    includes(m, "GET") /\ includes(m, "POST")
              /\ \E h \in HeaderValues(res[i].written[1], "Access-Control-Allow-Headers") :
                    includes(h, "X-User-Id")

\* a preflight on another path than /auth, with a user id header, has been answered
C11_Witness ==
    \E i \in Ids : /\ req[i].method = "OPTIONS"
                   /\ ~startsWith(req[i].url, "/auth")
                   /\ Truthy(req[i].headers["x-user-id"])
                   /\ pc[i] = "done"
                   /\ StatusOf(i) = 204

(***************************************************************************)
(* C12: every request that is not OPTIONS and whose path, the URL up to    *)
(* the query string, is not /auth, sends no token request and is answered  *)
(* with status 404 and the body {"error":"Not Found"}, identity headers or *)
(* not.                                                                    *)
(***************************************************************************)
PathOf(url) == split(url, "?")[1]

C12_OtherPaths ==
    \A i \in Ids : req[i].method # "OPTIONS" /\ PathOf(req[i].url) # "/auth" =>
        /\ ~HasCall(i)
        /\ pc[i] \in {"sent", "done"}
        /\ pc[i] = "done" =>
              /\ StatusOf(i) = 404
              /\ res[i].written[1].body = "{\"error\":\"Not Found\"}"

(***************************************************************************)
(* C13: no request has more than one request-token call, and a request     *)
(* whose call failed is answered once, with status 500 and a JSON body     *)
(* whose fields are error and details.                                     *)
(***************************************************************************)
CallsOf(i) == {k \in 1..Len(calls) : calls[k].id = i}

C13_FailedCall ==
    \A i \in Ids :
        /\ Cardinality(CallsOf(i)) <= 1
        /\ reply[i].t = "error" =>
              /\ Cardinality(CallsOf(i)) = 1
              /\ pc[i] = "done"
              /\ Len(res[i].written) = 1
              /\ StatusOf(i) = 500
              /\ LET body == JSONparse(res[i].written[1].body)
                 IN  /\ body.t = "object"
                     /\ Keys(body) = {"error", "details"}
                     /\ Get(body, "error") = StrV("Failed to create token")
                     /\ Get(body, "details") = StrV(reply[i].v)

\* a call has failed and its request has been answered
C13_Witness == \E i \in Ids : reply[i].t = "error" /\ pc[i] = "done" /\ HasCall(i)

(***************************************************************************)
(* C14: a request whose call succeeded is answered once, with status 200   *)
(* and a body that parses to the six fields of the envelope the authority  *)
(* returned, each with the returned value; the call carried the ClientId   *)
(* this request derived and the capability map of the user id it derived.  *)
(***************************************************************************)
C14_Envelope ==
    \A i \in Ids : reply[i].t = "token" =>
        LET env == reply[i].v
            body == JSONparse(res[i].written[1].body)
        IN  /\ pc[i] = "done"
            /\ Len(res[i].written) = 1
            /\ StatusOf(i) = 200
            /\ body.t = "object"
            /\ Len(body.v) = 6
            /\ Keys(body) = {"token", "keyName", "issued", "expires", "capability", "clientId"}
            /\ Get(body, "token") = StrV(env.token)
            /\ Get(body, "keyName") = StrV(env.keyName)
            /\ Get(body, "issued") = NumV(env.issued)
            /\ Get(body, "expires") = NumV(env.expires)
            /\ Get(body, "capability") = StrV(env.capability)
            /\ Get(body, "clientId") = StrV(env.clientId)
            /\ Cardinality(CallsOf(i)) = 1
            /\ TokenRequestOf(i).clientId = clientId[i].v
            /\ Keys(CapabilityOf(i)) = {"roomslist:" \o userId[i].v, "presence"}

\* the second token of the authority has been passed on to a clientId caller
C14_Witness ==
    \E i \in Ids : /\ reply[i].t = "token"
                   /\ StatusOf(i) = 200
                   /\ reply[i].v.token = "tokB"
                   /\ ViaClientId(i)

(***************************************************************************)
(* C15: every token request sent to the authority has ttl 3600000, on the  *)
(* header path and on the clientId path, a ttl parameter in the request    *)
(* or not.                                                                 *)
(***************************************************************************)
C15_Ttl == \A k \in 1..Len(calls) : calls[k].tokenRequest.ttl = 3600000

\* a token request has gone out for a request that asks for another ttl
C15_Witness ==
    \E i \in Ids : /\ includes(req[i].url, "ttl=1")
                   /\ HasCall(i)
                   /\ TokenRequestOf(i).ttl = 3600000

(***************************************************************************)
(* C16: on the clientId path the user id is the text after the last dot of *)
(* the supplied clientId and the display name the text before that dot,    *)
(* inner dots kept; the capability key issued is roomslist: followed by    *)
(* that user id.  The clientId a.b.c gives the user id c, the name a.b and *)
(* the key roomslist:c.                                                    *)
(***************************************************************************)
\* the position of the last dot of a string, 0 when it has none
LastDot(c) ==
    LET dots == {k \in 1..Len(c) : CharAt(c, k) = "."}
    IN  IF dots = {} THEN 0 ELSE CHOOSE k \in dots : \A d \in dots : d <= k

AfterLastDot(c) == SubSeq(c, LastDot(c) + 1, Len(c))

BeforeLastDot(c) == SubSeq(c, 1, LastDot(c) - 1)

\* the request came by the clientId path with one clientId and its body has arrived
SplitDone(i) ==
    /\ ViaClientId(i)
    /\ pc[i] \in {"awaitToken", "done"}
    /\ SdkClientId(req[i]).t = "string"
    /\ SdkClientId(req[i]).v # ""

C16_LastDot ==
    \A i \in Ids : SplitDone(i) =>
        LET c == SdkClientId(req[i]).v
        IN  /\ userId[i] = StrV(AfterLastDot(c))
            /\ userName[i] = StrV(BeforeLastDot(c))
            /\ clientId[i] = StrV(c)
            /\ HasCall(i) <=> AfterLastDot(c) # ""
            /\ HasCall(i) =>
                  /\ TokenRequestOf(i).clientId = c
                  /\ Keys(CapabilityOf(i)) = {"roomslist:" \o AfterLastDot(c), "presence"}
            /\ c = "a.b.c" =>
                  /\ userId[i] = StrV("c")
                  /\ userName[i] = StrV("a.b")
                  /\ "roomslist:c" \in Keys(CapabilityOf(i))

\* the clientId a.b.c has been split and its token request sent
C16_Witness ==
    \E i \in Ids : /\ SplitDone(i)
                   /\ SdkClientId(req[i]) = StrV("a.b.c")
                   /\ HasCall(i)
                   /\ userName[i] = StrV("a.b")

(***************************************************************************)
(* C17: a /auth request with a non-empty x-user-id header takes its        *)
(* identity from the headers alone: the user id is the header, the         *)
(* ClientId is made of the x-user-name header and the user id, the         *)
(* capability keys are those of the user id, and the body is never waited  *)
(* for, whatever clientId the query string or the body carries.            *)
(***************************************************************************)
C17_HeadersAlone ==
    \A i \in Ids : ViaHeaders(i) =>
        LET u == req[i].headers["x-user-id"].v
            h == req[i].headers["x-user-name"]
            n == IF h = Undefined \/ h.v = "" THEN "Unknown" ELSE h.v
        IN  /\ pc[i] # "awaitBody"
            /\ pc[i] # "sent" =>
                  /\ HasCall(i)
                  /\ userId[i] = StrV(u)
                  /\ userName[i] = StrV(n)
                  /\ TokenRequestOf(i).clientId = CollapseWs(n) \o "." \o u
                  /\ Keys(CapabilityOf(i)) = {"roomslist:" \o u, "presence"}

\* a request with identity headers and another clientId in its query string got its call
C17_Witness ==
    \E i \in Ids : /\ ViaHeaders(i)
                   /\ HasCall(i)
                   /\ SdkClientId(req[i]) = StrV("N.v")
                   /\ TokenRequestOf(i).clientId # "N.v"

(***************************************************************************)
(* C18: requests are handled independently.  While a request waits for the *)
(* authority every other unanswered request can still take its next step;  *)
(* a step of one request changes nothing of any other request; and what a  *)
(* request is answered is a function of its own method, URL, headers and   *)
(* body and of the authority's reply to its own token request.             *)
(***************************************************************************)
\* the status and body that the inputs of one request and the reply to it determine
OwnResponse(q, rep) ==
    IF q.method = "OPTIONS" THEN [status |-> 204, body |-> ""]
    ELSE IF ~startsWith(q.url, "/auth")
    THEN [status |-> 404, body |-> JSONstringify(ErrorResponse("Not Found"))]
    ELSE IF ~Truthy(q.headers["x-user-id"]) /\ SdkClientId(q).t = "array"
    THEN [status |-> 500,
          body |-> JSONstringify(ErrorResponseDetails("Failed to create token",
                                                      "sdkClientId.split is not a function"))]
    ELSE IF rep.t = "token"
    THEN [status |-> 200, body |-> JSONstringify(TokenDetails(rep.v))]
    ELSE IF rep.t = "error"
    THEN [status |-> 500,
          body |-> JSONstringify(ErrorResponseDetails("Failed to create token", rep.v))]
    ELSE [status |-> 400,
          body |-> JSONstringify(ErrorResponse("Could not determine user identity"))]

\* the token request that the inputs of one request determine
OwnTokenRequest(q) ==
    IF Truthy(q.headers["x-user-id"])
    THEN tokenRequest(HeaderClientId(HeaderUserName(q.headers).v, q.headers["x-user-id"].v),
                      q.headers["x-user-id"].v)
    ELSE tokenRequest(SdkClientId(q).v, SdkUserId(SdkClientId(q).v))

OwnInputsOnly ==
    \A i \in Ids :
        /\ pc[i] # "done" => res[i].written = << >> /\ reply[i] = NoReply
        /\ reply[i].t = "token" => reply[i].v \in Envelopes(OwnTokenRequest(req[i]))
        /\ pc[i] = "done" =>
              LET own == OwnResponse(req[i], reply[i])
              IN  /\ Len(res[i].written) = 1
                  /\ StatusOf(i) = own.status
                  /\ res[i].written[1].body = own.body

\* while another request waits for the authority, a request not yet handled can be
\* taken up and a request that waits too can be given the authority's answer
NotBlocked ==
    \A j \in Ids : (\E i \in Ids \ {j} : pc[i] = "awaitToken") =>
        /\ pc[j] = "sent" =>
              ENABLED (Options(j) \/ NotFound(j) \/ HeaderPath(j) \/ AwaitBody(j))
        /\ pc[j] = "awaitToken" =>
              ENABLED (\E message \in AuthorityErrors : TokenFailed(j, message))

\* what the model holds of request i
Own(i) == <<req[i], pc[i], userId[i], userName[i], clientId[i], reply[i], res[i],
            SelectSeq(calls, LAMBDA call : call.id = i)>>

Isolated == \A i, j \in Ids : i # j /\ Own(i)' # Own(i) => Own(j)' = Own(j)

C18_Independent == [](NotBlocked /\ OwnInputsOnly) /\ [][Isolated]_vars

\* a later request has been answered 200 while an earlier one still waits for the authority
C18_Witness ==
    \E i, j \in Ids : /\ i # j
                      /\ pc[i] = "awaitToken"
                      /\ pc[j] = "done"
                      /\ StatusOf(j) = 200
                      /\ CallOf(i) < CallOf(j)
                      /\ TokenRequestOf(i) # TokenRequestOf(j)

(***************************************************************************)
(* C19: every request is answered in the end; it never has more than one   *)
(* response, the response is written when its handler is done, has a       *)
(* status among 204, 404, 400, 200 and 500, and is never replaced; this    *)
(* holds for the requests that come with or after one that failed.         *)
(***************************************************************************)
OneResponse(i) == pc[i] = "done" /\ Len(res[i].written) = 1

AtMostOneResponse ==
    \A i \in Ids :
        /\ Len(res[i].written) <= 1
        /\ pc[i] = "done" <=> Len(res[i].written) = 1
        /\ Answered(i) => StatusOf(i) \in {204, 404, 400, 200, 500}

ResponseKept == \A i \in Ids : Answered(i) => res'[i].written = res[i].written

C19_ExactlyOneResponse ==
    /\ \A i \in 1..MaxReqs : (i \in Ids) ~> (i \in Ids /\ OneResponse(i))
    /\ []AtMostOneResponse
    /\ [][ResponseKept]_vars

\* one request failed with 500 and another has got its 200
C19_Witness ==
    \E i, j \in Ids : /\ OneResponse(i) /\ StatusOf(i) = 500
                      /\ OneResponse(j) /\ StatusOf(j) = 200

====
